---- MODULE Spec2Model ----
(***************************************************************************)
(* A model of electrolyte: the Ion value tree (types.rs), the tree builder *)
(* that assembles it from the pull decoder's events (reader.rs), and the   *)
(* scoped walker with its deserialization dispatch (walker.rs, traits.rs). *)
(*                                                                         *)
(* Three specifications share the module:                                  *)
(*   Spec        the builder over a nondeterministic decoder               *)
(*   SpecDecimal the builder fed decimals with boundary coefficients       *)
(*   SpecWalk    walkers and the Value accessors over a built tree         *)
(***************************************************************************)
EXTENDS Integers, Sequences, FiniteSets, TLC

\* ------------------------------------------------------------------ values

\* IonValue: a tagged payload with its annotations (types.rs, enum IonValue).
\* The payload of a List is the sequence of its items, that of a Struct the
\* map of its fields (a function from field names to values).
IonValue(ty, v, ann) == [ty |-> ty, v |-> v, ann |-> ann]

\* IonType: the value-less tags.
IonType ==
    {"Null", "Boolean", "Integer", "Float", "Timestamp", "String", "Blob",
     "List", "Struct"}

\* IonValue::ty
ty(value) == value.ty

\* IonError::new
IonError(errty, scopes) == [ty |-> errty, scopes |-> scopes]

WrongType(found, expected) ==
    [kind |-> "WrongType", found |-> found, expected |-> expected]

MissingField(name) == [kind |-> "MissingField", name |-> name]

TypeNotSupported(name) == [kind |-> "TypeNotSupported", name |-> name]

\* IonResult: Ok(value) or Err(error).
Ok(value) == [ok |-> TRUE, value |-> value]

Err(error) == [ok |-> FALSE, err |-> error]

\* HashMap::new and HashMap::insert: a later insert under a key replaces the
\* earlier value.
HashMap_new == [n \in {} |-> 0]

\* A map whose insert keeps the value already stored under the key.
HashMap_insert_keep(map, key, value) ==
    [n \in (DOMAIN map) \cup {key} |-> IF n \in DOMAIN map THEN map[n] ELSE value]

HashMap_insert(map, key, value) ==
    [n \in (DOMAIN map) \cup {key} |-> IF n = key THEN value ELSE map[n]]

\* ------------------------------------------------------- 64-bit arithmetic

\* A 64-bit word is four 16-bit limbs, most significant first.
Limb == 2 ^ 16

U64(a, b, c, d) == <<a, b, c, d>>

U64_ZERO == U64(0, 0, 0, 0)

I64_MIN == U64(Limb \div 2, 0, 0, 0)

\* The bitwise complement of a word.
U64Not(x) == [i \in 1..4 |-> (Limb - 1) - x[i]]

\* x + 1 modulo 2^64.
U64Inc(x) ==
    LET c4 == IF x[4] = Limb - 1 THEN 1 ELSE 0
        c3 == IF c4 = 1 /\ x[3] = Limb - 1 THEN 1 ELSE 0
        c2 == IF c3 = 1 /\ x[2] = Limb - 1 THEN 1 ELSE 0
    IN  <<(x[1] + c2) % Limb, (x[2] + c3) % Limb, (x[3] + c4) % Limb,
          (x[4] + 1) % Limb>>

\* `u as i64`: the same bits, read as two's complement.
AsI64(u) == u

I64IsNegative(x) == x[1] >= Limb \div 2

\* Two's complement negation, wrapping at i64::MIN.
I64WrappingNeg(x) == U64Inc(U64Not(x))

\* The magnitude of an i64, as an unsigned word.
I64Magnitude(x) == IF I64IsNegative(x) THEN I64WrappingNeg(x) ELSE x

\* The sign of an i64: "Minus", "NoSign" or "Plus", as num_bigint::Sign.
I64Sign(x) ==
    IF x = U64_ZERO THEN "NoSign"
    ELSE IF I64IsNegative(x) THEN "Minus" ELSE "Plus"

\* ----------------------------------------------------------------- decoder

\* The bound on the values one decoded document holds.
MaxEvents == 4

\* The field names the decoder reports inside a struct.
FieldNames == {"a", "b"}

\* The annotation lists the decoder reports.
AnnotationLists == {<<"note">>}

\* The tags the decoder reports at the end of a container or of the input.
EndTypes == {"ION_TYPE_NONE", "ION_TYPE_EOF"}

ValueTypes ==
    {"ION_TYPE_NULL", "ION_TYPE_BOOL", "ION_TYPE_INT", "ION_TYPE_FLOAT",
     "ION_TYPE_DECIMAL", "ION_TYPE_TIMESTAMP", "ION_TYPE_SYMBOL",
     "ION_TYPE_STRING", "ION_TYPE_CLOB", "ION_TYPE_BLOB", "ION_TYPE_LIST",
     "ION_TYPE_SEXP", "ION_TYPE_STRUCT", "ION_TYPE_DATAGRAM"}

\* A float, kept as the quotient it was computed from: coeff / 10^exp.
F64(coeff, exp) == [coeff |-> coeff, exp |-> exp]

\* A decoded decimal: the sign and the little-endian 64-bit digits of its
\* coefficient (none for zero), and its exponent.
BigDecimal(sign, digits, exp) == [sign |-> sign, digits |-> digits, exp |-> exp]

\* Decimals of the everyday kind: 1.5 and -1.5.
PlainDecimals ==
    {BigDecimal(s, <<U64(0, 0, 0, 15)>>, 1) : s \in {"Plus", "Minus"}}

\* Decimals whose coefficient sits at the edges of one 64-bit digit, and one
\* of two digits.
EdgeDecimals ==
    {BigDecimal("NoSign", <<>>, 0)}
    \cup {BigDecimal(s, <<m>>, 1) :
            s \in {"Plus", "Minus"},
            m \in {U64(0, 0, 0, 1),
                   U64(Limb \div 2 - 1, Limb - 1, Limb - 1, Limb - 1),
                   I64_MIN,
                   U64(Limb \div 2, 0, 0, 1),
                   U64(Limb - 1, Limb - 1, Limb - 1, Limb - 1)}}
    \cup {BigDecimal("Plus", <<U64(0, 0, 0, 2), U64(0, 0, 0, 1)>>, 0)}

\* What the typed read of a value of each tag can return.
Payloads(tag, decimals) ==
    CASE tag = "ION_TYPE_BOOL" -> {TRUE}
      [] tag = "ION_TYPE_INT" -> {7}
      [] tag = "ION_TYPE_FLOAT" -> {F64(U64(0, 0, 0, 25), 1)}
      [] tag = "ION_TYPE_DECIMAL" -> decimals
      [] tag = "ION_TYPE_STRING" -> {"x"}
      [] tag = "ION_TYPE_TIMESTAMP" -> {"2020-01-01T00:00:00+00:00"}
      [] OTHER -> {"none"}

\* One position of the decoder's cursor: the tag, annotations and field name
\* it reports there and the payload a typed read returns.
Event(tag, ann, name, payload) ==
    [ty |-> tag, ann |-> ann, name |-> name, payload |-> payload]

EndEvent == Event("ION_TYPE_EOF", <<>>, "", "none")

\* What a decoder can emit: the tags and the decimals it reports.
PlainDecoder == [tags |-> ValueTypes, decimals |-> PlainDecimals]

EdgeDecoder ==
    [tags |-> {"ION_TYPE_DECIMAL", "ION_TYPE_LIST", "ION_TYPE_STRUCT"},
     decimals |-> EdgeDecimals]

\* ----------------------------------------------------------------- builder

VARIABLES
    stack,            \* the builder's call stack: one frame per open container
    status,           \* "running", "ok", "err" or "panic"
    result,           \* what read_string returned, once status is not "running"
    cur,              \* the decoder: the event under its cursor
    depth,            \* the decoder: its nesting depth
    lastOp,           \* the decoder: the last operation performed on it
    stepIns,          \* the decoder: step_in calls so far
    stepOuts,         \* the decoder: step_out calls so far
    nread,            \* the decoder: values emitted so far
    lastBuilt,        \* the last container completed, with what was decoded in it
    lastDecimal       \* the last decimal read, with the coefficient scaled

builderVars ==
    <<stack, status, result, cur, depth, lastOp, stepIns, stepOuts, nread,
      lastBuilt, lastDecimal>>

VARIABLES
    doc,              \* the built tree the walkers read
    rootScopes,       \* the scopes the root walker was created with
    wstack,           \* the walkers in use: one per deserialize call in progress
    call,             \* the last method called, with its receiver and arguments
    res               \* what that call returned

walkerVars == <<doc, rootScopes, wstack, call, res>>

vars == <<builderVars, walkerVars>>

NoCall == [op |-> "none", ok |-> FALSE]

\* No tree is being walked.
WalkerIdle ==
    /\ doc = IonValue("Null", "none", <<>>)
    /\ rootScopes = <<>>
    /\ wstack = <<>>
    /\ call = NoCall
    /\ res = NoCall

\* The locals of one activation of read_string, read_struct or read_list,
\* with those of the read_value that called it (annotations) and, while a
\* nested read_value runs, the field name it will be stored under (key).
\* seen is the decoder's side: the (name, value) pairs emitted in this
\* container, in decode order.
Frame(fn, annotations) ==
    [fn |-> fn, items |-> <<>>, fields |-> HashMap_new,
     annotations |-> annotations, key |-> "", seen |-> <<>>]

\* The signed coefficient read_value scales: the lowest 64-bit digit of the
\* magnitude as i64, negated when the sign is Minus. "panic" when the
\* magnitude has no digit (unwrap of None) or the negation overflows in a
\* build with overflow checks.
decimal_coeff(bigint_sign, digits, checks) ==
    IF digits = <<>> THEN [panic |-> TRUE, coeff |-> U64_ZERO]
    ELSE LET coeff == AsI64(digits[1])
         IN  IF bigint_sign = "Minus"
             THEN IF coeff = I64_MIN /\ checks
                  THEN [panic |-> TRUE, coeff |-> coeff]
                  ELSE [panic |-> FALSE, coeff |-> I64WrappingNeg(coeff)]
             ELSE [panic |-> FALSE, coeff |-> coeff]

\* The outcomes of read_value before it returns or calls down.
Returned(value, op) == [kind |-> "value", out |-> value, op |-> op]

Panicked(op) == [kind |-> "panic", out |-> "none", op |-> op]

Calls(fn, annotations) == [kind |-> "call", out |-> fn, annotations |-> annotations, op |-> "step_in"]

\* An arm that converts an unsupported kind as best it can, to a String
\* holding the kind's name.
Unsupported_lenient(name) ==
    [kind |-> "value", out |-> IonValue("String", name, <<>>), op |-> "get_type"]

\* read_value's arms for the kinds it does not support: the error is
\* returned straight from the match on get_type().
Unsupported(name) ==
    [kind |-> "error", out |-> IonError(TypeNotSupported(name), <<>>), op |-> "get_type"]

\* IonReader::read_value, up to its return or its call of read_struct or
\* read_list: the annotations are read, then the tag, then the payload.
read_value(ev, checks) ==
    LET annotations == ev.ann
    IN  CASE ev.ty = "ION_TYPE_NULL" ->
                Returned(IonValue("Null", "none", annotations), "get_type")
          [] ev.ty = "ION_TYPE_SEXP" -> Unsupported("SExpr")
          [] ev.ty = "ION_TYPE_BLOB" -> Unsupported("Blob")
          [] ev.ty = "ION_TYPE_CLOB" -> Unsupported("Clob")
          [] ev.ty = "ION_TYPE_SYMBOL" -> Unsupported("Symbol")
          [] ev.ty = "ION_TYPE_DATAGRAM" -> Unsupported("Datagram")
          [] ev.ty = "ION_TYPE_STRUCT" -> Calls("read_struct", annotations)
          [] ev.ty = "ION_TYPE_LIST" -> Calls("read_list", annotations)
          [] ev.ty = "ION_TYPE_STRING" ->
                Returned(IonValue("String", ev.payload, annotations), "read_string")
          [] ev.ty = "ION_TYPE_INT" ->
                Returned(IonValue("Integer", ev.payload, annotations), "read_i64")
          [] ev.ty = "ION_TYPE_FLOAT" ->
                Returned(IonValue("Float", ev.payload, annotations), "read_f64")
          [] ev.ty = "ION_TYPE_DECIMAL" ->
                LET c == decimal_coeff(ev.payload.sign, ev.payload.digits, checks)
                IN  IF c.panic THEN Panicked("read_bigdecimal")
                    ELSE Returned(IonValue("Float", F64(c.coeff, ev.payload.exp),
                                           annotations), "read_bigdecimal")
          [] ev.ty = "ION_TYPE_BOOL" ->
                Returned(IonValue("Boolean", ev.payload, annotations), "read_bool")
          [] ev.ty = "ION_TYPE_TIMESTAMP" ->
                Returned(IonValue("Timestamp", ev.payload, annotations), "read_datetime")

\* What the loop that called read_value does with the value it returned:
\* read_struct inserts it under the key it read, read_list and read_string
\* push it.
Deliver(frame, value) ==
    LET noted == [frame EXCEPT !.seen = Append(@, [name |-> frame.key, value |-> value])]
    IN  IF frame.fn = "read_struct"
        THEN [noted EXCEPT !.fields = HashMap_insert(@, frame.key, value)]
        ELSE [noted EXCEPT !.items = Append(@, value)]

\* The decimal a step read, with the coefficient it scaled.
NoteDecimal(ev, out) ==
    IF ev.ty = "ION_TYPE_DECIMAL"
    THEN [seen |-> TRUE, sign |-> ev.payload.sign, digits |-> ev.payload.digits,
          panic |-> out.kind = "panic",
          coeff |-> IF out.kind = "value" THEN out.out.v.coeff ELSE U64_ZERO]
    ELSE lastDecimal

\* The part of a loop iteration after the cursor moved onto a value: the
\* call of read_value and what follows its return. An error leaves through
\* every open frame (the ? operator); a panic unwinds them. The build is
\* one with or without overflow checks.
ReadValueStep(ev, key) ==
    \E overflow_checks \in BOOLEAN :
    LET out == read_value(ev, overflow_checks)
        top == Len(stack)
        caller == [stack[top] EXCEPT !.key = key]
    IN  /\ cur' = ev
        /\ nread' = nread + 1
        /\ lastOp' = out.op
        /\ lastDecimal' = NoteDecimal(ev, out)
        /\ UNCHANGED <<stepOuts, lastBuilt, walkerVars>>
        /\ CASE out.kind = "value" ->
                  /\ stack' = [stack EXCEPT ![top] = Deliver(caller, out.out)]
                  /\ UNCHANGED <<status, result, depth, stepIns>>
             [] out.kind = "call" ->
                  /\ stack' = Append([stack EXCEPT ![top] = caller],
                                     Frame(out.out, out.annotations))
                  /\ depth' = depth + 1
                  /\ stepIns' = stepIns + 1
                  /\ UNCHANGED <<status, result>>
             [] out.kind = "error" ->
                  /\ stack' = <<>>
                  /\ status' = "err"
                  /\ result' = Err(out.out)
                  /\ UNCHANGED <<depth, stepIns>>
             [] out.kind = "panic" ->
                  /\ stack' = <<>>
                  /\ status' = "panic"
                  /\ UNCHANGED <<result, depth, stepIns>>

\* A return from a container that forgets to step out.
ReturnContainerNoStepOut(value) ==
    LET top == Len(stack)
    IN  /\ cur' = EndEvent
        /\ lastOp' = "get_type"
        /\ lastBuilt' = [value |-> value, seen |-> stack[top].seen]
        /\ stack' = [SubSeq(stack, 1, top - 1) EXCEPT
                        ![top - 1] = Deliver(stack[top - 1], value)]
        /\ UNCHANGED <<status, result, depth, stepIns, stepOuts, nread, lastDecimal,
                       walkerVars>>

\* The end of read_struct or read_list: step_out, the container returned to
\* the read_value that called, wrapped with its annotations, and delivered
\* to the loop below.
ReturnContainer(value) ==
    LET top == Len(stack)
    IN  /\ cur' = EndEvent
        /\ lastOp' = "step_out"
        /\ depth' = depth - 1
        /\ stepOuts' = stepOuts + 1
        /\ lastBuilt' = [value |-> value, seen |-> stack[top].seen]
        /\ stack' = [SubSeq(stack, 1, top - 1) EXCEPT
                        ![top - 1] = Deliver(stack[top - 1], value)]
        /\ UNCHANGED <<status, result, stepIns, nread, lastDecimal, walkerVars>>

Running(fn) ==
    /\ status = "running"
    /\ stack # <<>>
    /\ stack[Len(stack)].fn = fn

\* One iteration of read_string's loop: next(), then the document is
\* returned at the end of the input, or the value is read and pushed.
ReadStringIter(decoder) ==
    /\ Running("read_string")
    /\ \/ /\ EndEvent.ty \in EndTypes
          /\ cur' = EndEvent
          /\ lastOp' = "next"
          /\ status' = "ok"
          /\ result' = Ok(IonValue("List", stack[1].items, <<>>))
          /\ lastBuilt' = [value |-> IonValue("List", stack[1].items, <<>>),
                           seen |-> stack[1].seen]
          /\ stack' = <<>>
          /\ UNCHANGED <<depth, stepIns, stepOuts, nread, lastDecimal, walkerVars>>
       \/ /\ nread < MaxEvents
          /\ \E tag \in decoder.tags, ann \in AnnotationLists :
                \E payload \in Payloads(tag, decoder.decimals) :
                    ReadValueStep(Event(tag, ann, "", payload), "")

\* One iteration of read_struct's loop: next() and get_type(), then
\* step_out and return at the end of the struct, or the field name is read,
\* the value is read and inserted under it.
ReadStructIter(decoder) ==
    /\ Running("read_struct")
    /\ \/ /\ EndEvent.ty \in EndTypes
          /\ LET frame == stack[Len(stack)]
             IN  ReturnContainer(IonValue("Struct", frame.fields, frame.annotations))
       \/ /\ nread < MaxEvents
          /\ \E tag \in decoder.tags, ann \in AnnotationLists, name \in FieldNames :
                \E payload \in Payloads(tag, decoder.decimals) :
                    ReadValueStep(Event(tag, ann, name, payload), name)

\* One iteration of read_list's loop: next() and get_type(), then step_out
\* and return at the end of the list, or the value is read and pushed.
ReadListIter(decoder) ==
    /\ Running("read_list")
    /\ \/ /\ EndEvent.ty \in EndTypes
          /\ LET frame == stack[Len(stack)]
             IN  ReturnContainer(IonValue("List", frame.items, frame.annotations))
       \/ /\ nread < MaxEvents
          /\ \E tag \in decoder.tags, ann \in AnnotationLists :
                \E payload \in Payloads(tag, decoder.decimals) :
                    ReadValueStep(Event(tag, ann, "", payload), "")

NoDecimal ==
    [seen |-> FALSE, sign |-> "NoSign", digits |-> <<>>, panic |-> FALSE,
     coeff |-> U64_ZERO]

NoContainer == [value |-> IonValue("Null", "none", <<>>), seen |-> <<>>]

NoResult == [ok |-> FALSE, err |-> IonError([kind |-> "none"], <<>>)]

\* read_string, entered: the reader is at depth 0 before its first value.
BuilderInit ==
    /\ stack = <<Frame("read_string", <<>>)>>
    /\ status = "running"
    /\ result = NoResult
    /\ cur = EndEvent
    /\ depth = 0
    /\ lastOp = "try_from"
    /\ stepIns = 0
    /\ stepOuts = 0
    /\ nread = 0
    /\ lastBuilt = NoContainer
    /\ lastDecimal = NoDecimal

Init == BuilderInit /\ WalkerIdle

Next ==
    \/ ReadStringIter(PlainDecoder)
    \/ ReadStructIter(PlainDecoder)
    \/ ReadListIter(PlainDecoder)

Spec == Init /\ [][Next]_vars

NextDecimal ==
    \/ ReadStringIter(EdgeDecoder)
    \/ ReadStructIter(EdgeDecoder)
    \/ ReadListIter(EdgeDecoder)

SpecDecimal == Init /\ [][NextDecimal]_vars

\* ------------------------------------------------------- builder: properties

\* The kinds the builder does not support, with the name each is reported by.
ExcludedName(tag) ==
    CASE tag = "ION_TYPE_SYMBOL" -> "Symbol"
      [] tag = "ION_TYPE_SEXP" -> "SExpr"
      [] tag = "ION_TYPE_CLOB" -> "Clob"
      [] tag = "ION_TYPE_DATAGRAM" -> "Datagram"
      [] OTHER -> "none"

OnExcluded == ExcludedName(cur.ty) # "none"

\* C4: a value tagged symbol, s-expression, clob or datagram, at any depth,
\* ends the build at once: the build has returned a TypeNotSupported error
\* with that kind's name and an empty scope path, no tree and no frame is
\* left, the last decoder operation is the get_type that reported the tag,
\* and nothing happens afterwards.
C4_UnsupportedFailFast ==
    /\ [](OnExcluded =>
            /\ status = "err"
            /\ ~result.ok
            /\ result.err = IonError(TypeNotSupported(ExcludedName(cur.ty)), <<>>)
            /\ stack = <<>>
            /\ lastOp = "get_type")
    /\ [][~OnExcluded]_vars

C4_Witness ==
    /\ status = "err"
    /\ cur.ty = "ION_TYPE_SEXP"
    /\ depth = 2
    /\ nread = 4

\* The names decoded in a container, and the last position of each.
SeenNames(seen) == {seen[i].name : i \in DOMAIN seen}

LastOccurrence(seen, name) ==
    CHOOSE i \in DOMAIN seen :
        /\ seen[i].name = name
        /\ \A j \in DOMAIN seen : seen[j].name = name => j <= i

\* C5: a completed Record holds exactly the distinct names decoded in the
\* struct, each with the value of its last occurrence in decode order, and
\* as many fields as there are distinct names.
C5_LastOccurrenceWins ==
    lastBuilt.value.ty = "Struct" =>
        LET seen == lastBuilt.seen
            fields == lastBuilt.value.v
        IN  /\ DOMAIN fields = SeenNames(seen)
            /\ \A name \in SeenNames(seen) :
                    fields[name] = seen[LastOccurrence(seen, name)].value
            /\ Cardinality(DOMAIN fields) = Cardinality(SeenNames(seen))

C5_Witness ==
    /\ lastBuilt.value.ty = "Struct"
    /\ Len(lastBuilt.seen) = 3
    /\ Cardinality(DOMAIN lastBuilt.value.v) = 2
    /\ lastBuilt.seen[1].name = lastBuilt.seen[3].name
    /\ lastBuilt.seen[1].value.ty # lastBuilt.seen[3].value.ty

\* C8 as stated: over any event stream, once the build has returned, every
\* step_in has had its step_out.
C8_Original == status \in {"ok", "err"} => stepIns = stepOuts

\* C8, amended: step_out never outruns step_in; while the build runs the
\* decoder's depth is the number of containers the builder has open; a
\* step_out is issued only at a container's end signal, one at a time, and
\* closes the innermost open container; a build that returns a tree leaves
\* the decoder at depth 0 with every step_in matched; and a built Sequence
\* holds what was decoded in it, in decode order. Once the build has
\* returned, with a tree or an error, no decoder operation follows.
C8_PairedOnSuccess ==
    /\ [](/\ stepOuts <= stepIns
          /\ depth = stepIns - stepOuts
          /\ status = "running" => depth = Len(stack) - 1
          /\ status = "ok" => depth = 0 /\ stepIns = stepOuts
          /\ lastBuilt.value.ty = "List" =>
                /\ Len(lastBuilt.value.v) = Len(lastBuilt.seen)
                /\ \A i \in DOMAIN lastBuilt.seen :
                        lastBuilt.value.v[i] = lastBuilt.seen[i].value)
    /\ [][/\ status = "running"
          /\ stepOuts' # stepOuts =>
                /\ stepOuts' = stepOuts + 1
                /\ cur'.ty \in EndTypes
                /\ depth' = depth - 1
                /\ Len(stack') = Len(stack) - 1]_vars

C8_Witness ==
    /\ status = "ok"
    /\ stepIns = 2
    /\ stepOuts = 2
    /\ Len(result.value.v) = 2

\* C10 as stated: a decimal whose coefficient magnitude fits one 64-bit
\* digit is converted without aborting, and the coefficient that is scaled
\* has the decoder's sign and magnitude.
C10_SignPreserved ==
    (lastDecimal.seen /\ Len(lastDecimal.digits) <= 1) =>
        /\ ~lastDecimal.panic
        /\ I64Sign(lastDecimal.coeff) = lastDecimal.sign
        /\ I64Magnitude(lastDecimal.coeff) =
              (IF lastDecimal.digits = <<>> THEN U64_ZERO ELSE lastDecimal.digits[1])

\* ------------------------------------------------------------- Value model

\* Option<T>.
Some(x) == [some |-> TRUE, value |-> x]

None == [some |-> FALSE]

\* The i64 word of a small integer, and `i as f64`.
I64Word(i) == IF i >= 0 THEN U64(0, 0, 0, i) ELSE I64WrappingNeg(U64(0, 0, 0, 0 - i))

IntAsF64(i) == F64(I64Word(i), 0)

\* IonValue::as_struct .. IonValue::as_timestamp: the payload when the tag
\* matches, None otherwise.
IonValue_as_struct(value) == IF value.ty = "Struct" THEN Some(value.v) ELSE None

IonValue_as_list(value) == IF value.ty = "List" THEN Some(value.v) ELSE None

\* A sized view that accepts a longer list and returns its first n items.
IonValue_as_list_sized_prefix(value, n) ==
    IF value.ty = "List" /\ Len(value.v) >= n
    THEN Some(SubSeq(value.v, 1, n))
    ELSE None

\* IonValue::as_list_sized::<N>: the items when the value is a list of
\* exactly N items.
IonValue_as_list_sized(value, n) ==
    IF value.ty = "List" /\ Len(value.v) = n
    THEN Some(SubSeq(value.v, 1, n))
    ELSE None

IonValue_as_bool(value) == IF value.ty = "Boolean" THEN Some(value.v) ELSE None

IonValue_as_int(value) == IF value.ty = "Integer" THEN Some(value.v) ELSE None

\* IonValue::as_float also accepts an Integer, cast to f64.
IonValue_as_float(value) ==
    CASE value.ty = "Float" -> Some(value.v)
      [] value.ty = "Integer" -> Some(IntAsF64(value.v))
      [] OTHER -> None

IonValue_as_str(value) == IF value.ty = "String" THEN Some(value.v) ELSE None

IonValue_as_timestamp(value) == IF value.ty = "Timestamp" THEN Some(value.v) ELSE None

\* IonStruct::field: HashMap::get.
field(fields, name) == IF name \in DOMAIN fields THEN Some(fields[name]) ELSE None

\* ------------------------------------------------------------------ walker

\* The node a walker refers to: its data is a reference into the tree, kept
\* as the field names leading to the node from the root.
RECURSIVE Deref(_, _)
Deref(value, ref) ==
    IF ref = <<>> THEN value ELSE Deref(value.v[Head(ref)], Tail(ref))

\* IonWalker { data, scopes }.
IonWalker(data, scopes) == [data |-> data, scopes |-> scopes]

\* IonWalker::new and IonWalker::with_scopes.
new(data) == IonWalker(data, <<>>)

with_scopes(data, scopes) == IonWalker(data, scopes)

\* Every method of the walker takes &self. A call is modelled by the pair of
\* the receiver as the call leaves it and the value returned.
Call(self, ret) == [self |-> self, ret |-> ret]

\* IonWalker::clone_scopes.
clone_scopes(self) == Call(self, self.scopes)

\* A clone_scopes_with that returns the copy without the scope.
clone_scopes_with_dropping(self, scope) == Call(self, self.scopes)

\* A clone_scopes_with that pushes onto the walker's own scopes.
clone_scopes_with_in_place(self, scope) ==
    Call([self EXCEPT !.scopes = Append(@, scope)], Append(self.scopes, scope))

\* IonWalker::clone_scopes_with: a copy of the scopes, the scope pushed on
\* the copy.
clone_scopes_with(self, scope) ==
    LET scopes == Append(self.scopes, scope)
    IN  Call(self, scopes)

\* IonWalker::clone_with_scope: a walker over the same data, with a copy of
\* the scopes and the scope pushed on the copy.
clone_with_scope(self, scope) ==
    LET scopes == Append(self.scopes, scope)
    IN  Call(self, IonWalker(self.data, scopes))

\* IonWalker::error.
error(self, errty) ==
    LET c == clone_scopes(self)
    IN  Call(c.self, IonError(errty, c.ret))

\* What as_K and get_K return for a value of kind K: the $res of each
\* type_fns! line.
Payload(K, value) == IF K = "Null" THEN "unit" ELSE value.v

\* An as_K that also lets an Integer through as_float, cast to f64.
as_K_coercing(self, K) ==
    LET value == Deref(doc, self.data)
    IN  IF value.ty = K THEN Call(self, Ok(Payload(K, value)))
        ELSE IF K = "Float" /\ value.ty = "Integer"
        THEN Call(self, Ok(IntAsF64(value.v)))
        ELSE Call(self, Err(IonError(WrongType(ty(value), K), self.scopes)))

\* type_fns!: IonWalker::as_K, for K among the nine kinds.
as_K(self, K) ==
    LET value == Deref(doc, self.data)
    IN  IF value.ty = K THEN Call(self, Ok(Payload(K, value)))
        ELSE LET c == clone_scopes(self)
             IN  Call(c.self, Err(IonError(WrongType(ty(value), K), c.ret)))

\* A get_K that reports a failure under the walker's own scopes.
get_K_unscoped(self, K, field_name) ==
    LET st == as_K(self, "Struct")
    IN  IF ~st.ret.ok THEN st
        ELSE LET f == field(st.ret.value, field_name)
             IN  IF f.some /\ f.value.ty = K THEN Call(st.self, Ok(Payload(K, f.value)))
                 ELSE IF f.some
                 THEN Call(st.self, Err(IonError(WrongType(ty(f.value), K), st.self.scopes)))
                 ELSE Call(st.self, Err(IonError(MissingField(field_name), st.self.scopes)))

\* type_fns!: IonWalker::get_K. The ? on as_struct returns its error.
get_K(self, K, field_name) ==
    LET st == as_K(self, "Struct")
    IN  IF ~st.ret.ok THEN st
        ELSE LET f == field(st.ret.value, field_name)
             IN  IF f.some
                 THEN IF f.value.ty = K
                      THEN Call(st.self, Ok(Payload(K, f.value)))
                      ELSE LET c == clone_scopes_with(st.self, field_name)
                           IN  Call(c.self,
                                    Err(IonError(WrongType(ty(f.value), K), c.ret)))
                 ELSE LET c == clone_scopes_with(st.self, field_name)
                      IN  Call(c.self, Err(IonError(MissingField(field_name), c.ret)))

\* The built-in deserializable types.
Primitives == {"f32", "f64", "i32", "i64"}

\* `x as f32`: the f64 rounded to single precision.
AsF32(x) == [f32 |-> x]

\* `i as i32`: every integer payload of the model lies within i32.
AsI32(i) == i

\* IonDeserialize::deserialize for f32, f64, i32 and i64.
deserialize(T, walker) ==
    LET r == IF T \in {"f32", "f64"} THEN as_K(walker, "Float")
             ELSE as_K(walker, "Integer")
    IN  IF ~r.ret.ok THEN r
        ELSE CASE T = "f32" -> Call(r.self, Ok(AsF32(r.ret.value)))
               [] T = "i32" -> Call(r.self, Ok(AsI32(r.ret.value)))
               [] OTHER -> r

\* IonWalker::as_type::<T>.
as_type(self, T) == deserialize(T, self)

\* IonWalker::get_type up to the call of T::deserialize: the error it
\* returns itself, or the walker it hands to T::deserialize.
get_type_child(self, field_name) ==
    LET st == as_K(self, "Struct")
    IN  IF ~st.ret.ok THEN st
        ELSE LET f == field(st.ret.value, field_name)
                 c == clone_scopes_with(st.self, field_name)
             IN  IF f.some
                 THEN Call(c.self, Ok(IonWalker(Append(self.data, field_name), c.ret)))
                 ELSE Call(c.self, Err(IonError(MissingField(field_name), c.ret)))

\* IonWalker::get_type::<T> for a built-in T.
get_type(self, T, field_name) ==
    LET child == get_type_child(self, field_name)
    IN  IF ~child.ret.ok THEN child
        ELSE Call(child.self, deserialize(T, child.ret.value).ret)

\* IonWalker::deserialize_with_scopes::<T>, over the node at data.
deserialize_with_scopes(T, data, scopes) == deserialize(T, with_scopes(data, scopes)).ret

\* IonStruct::into_map_of::<T>: the fields are visited in the map's
\* iteration order, here order; the first failure is returned.
RECURSIVE into_map_loop(_, _, _, _, _)
into_map_loop(T, data, scopes, order, map) ==
    IF order = <<>> THEN Ok(map)
    ELSE LET k == Head(order)
             value == deserialize_with_scopes(T, Append(data, k), scopes)
         IN  IF ~value.ok THEN value
             ELSE into_map_loop(T, data, scopes, Tail(order),
                                HashMap_insert(map, k, value.value))

into_map_of(T, data, scopes, order) ==
    LET start == IF scopes.some THEN scopes.value ELSE <<>>
    IN  into_map_loop(T, data, start, order, HashMap_new)

\* ------------------------------------------------------------ walked trees

\* The bounds on the trees walked: the longest list and the deepest nesting
\* of records.
MaxLen == 2

MaxDepth == 2

Scalars ==
    {IonValue("Null", "none", <<>>),
     IonValue("Boolean", TRUE, <<>>),
     IonValue("Integer", 7, <<>>),
     IonValue("Float", F64(U64(0, 0, 0, 25), 1), <<>>),
     IonValue("Timestamp", "2020-01-01T00:00:00+00:00", <<>>),
     IonValue("Blob", <<1, 2>>, <<>>),
     IonValue("String", "x", <<>>)}

Lists ==
    {IonValue("List", [i \in 1..n |-> IonValue("Integer", i, <<>>)], <<>>) :
        n \in 0..MaxLen}

Leaves == Scalars \cup Lists

\* What the second field of a record holds.
Siblings == {IonValue("Integer", 7, <<>>), IonValue("String", "x", <<>>)}

\* IonStruct::new over the records with fields among "a" and "b".
Records(children) ==
    {IonValue("Struct", HashMap_new, <<>>)}
    \cup {IonValue("Struct", HashMap_insert(HashMap_new, "a", x), <<>>) :
            x \in children}
    \cup {IonValue("Struct", HashMap_insert(HashMap_new, "b", y), <<>>) :
            y \in Siblings}
    \cup {IonValue("Struct",
                    HashMap_insert(HashMap_insert(HashMap_new, "a", x), "b", y),
                    <<>>) : x \in children, y \in Siblings}

RECURSIVE Trees(_)
Trees(d) == IF d = 0 THEN Leaves ELSE Leaves \cup Records(Trees(d - 1))

\* The scopes a root walker is created with.
RootScopes == {<<>>, <<"root">>}

\* The labels a caller attaches to a walker.
Labels == FieldNames \cup {"[0]"}

\* The orders in which a map of the given keys can be iterated.
Orders(keys) ==
    {o \in [1..Cardinality(keys) -> keys] :
        \A i, j \in DOMAIN o : o[i] = o[j] => i = j}

\* ----------------------------------------------------------- walker steps

Top == wstack[Len(wstack)]

\* The body of a deserialize is between calls: it has made none yet, it is
\* done with what a nested deserialize returned, or it has just been
\* entered.
Ready ==
    \/ call.op \in {"none", "returned"}
    \/ call.op = "descend" /\ res.ok

\* A call on the walker in use returned: the receiver is as the call left
\* it.
Returns(c, made) ==
    /\ Ready
    /\ wstack' = [wstack EXCEPT ![Len(wstack)] = c.self]
    /\ res' = c.ret
    /\ call' = made
    /\ UNCHANGED <<doc, rootScopes, builderVars>>

AsK ==
    \E K \in IonType :
        Returns(as_K(Top, K), [op |-> "as", self |-> Top, K |-> K])

GetK ==
    \E K \in IonType, f \in FieldNames :
        Returns(get_K(Top, K, f), [op |-> "get", self |-> Top, K |-> K, field |-> f])

AsType ==
    \E T \in Primitives :
        Returns(as_type(Top, T), [op |-> "as_type", self |-> Top, T |-> T])

GetType ==
    \E T \in Primitives, f \in FieldNames :
        Returns(get_type(Top, T, f),
                [op |-> "get_type", self |-> Top, T |-> T, field |-> f])

\* get_type::<T> for a T that is not built in: T::deserialize is entered
\* with the child walker, or get_type returns its own error.
Descend ==
    \E f \in FieldNames :
        LET c == get_type_child(Top, f)
            made == [op |-> "descend", self |-> Top, field |-> f,
                     after |-> IF call.op = "returned" THEN call.self.data ELSE <<>>]
        IN  /\ Ready
            /\ call' = made
            /\ UNCHANGED <<doc, rootScopes, builderVars>>
            /\ IF c.ret.ok
               THEN /\ wstack' = Append([wstack EXCEPT ![Len(wstack)] = c.self],
                                        c.ret.value)
                    /\ res' = Ok("entered")
               ELSE /\ wstack' = [wstack EXCEPT ![Len(wstack)] = c.self]
                    /\ res' = c.ret

\* T::deserialize returns what its last call returned, to the get_type that
\* entered it.
Return ==
    /\ Len(wstack) > 1
    /\ wstack' = SubSeq(wstack, 1, Len(wstack) - 1)
    /\ call' = [op |-> "return", self |-> Top]
    /\ UNCHANGED <<doc, rootScopes, res, builderVars>>

\* The caller is done with the value a call returned.
DropResult ==
    /\ ~Ready
    /\ call' = IF call.op = "return"
               THEN [op |-> "returned", self |-> call.self]
               ELSE NoCall
    /\ res' = NoCall
    /\ UNCHANGED <<doc, rootScopes, wstack, builderVars>>

CloneWithScope ==
    \E label \in Labels :
        Returns(clone_with_scope(Top, label),
                [op |-> "clone_with_scope", self |-> Top, label |-> label])

CloneScopesWith ==
    \E label \in Labels :
        Returns(clone_scopes_with(Top, label),
                [op |-> "clone_scopes_with", self |-> Top, label |-> label])

ErrorCall ==
    Returns(error(Top, [kind |-> "InvalidValue", name |-> "bad"]),
            [op |-> "error", self |-> Top])

\* IonValue::as_list_sized::<N> on the walker's node.
AsListSized ==
    \E n \in 0..(MaxLen + 1) :
        Returns(Call(Top, IonValue_as_list_sized(Deref(doc, Top.data), n)),
                [op |-> "as_list_sized", self |-> Top, n |-> n])

\* IonStruct::into_map_of::<T> on the walker's node, a Record, with no
\* scopes or with the walker's.
IntoMapOf ==
    /\ Deref(doc, Top.data).ty = "Struct"
    /\ \E T \in Primitives, given \in BOOLEAN :
        \E order \in Orders(DOMAIN Deref(doc, Top.data).v) :
            LET scopes == IF given THEN Some(Top.scopes) ELSE None
            IN  Returns(Call(Top, into_map_of(T, Top.data, scopes, order)),
                        [op |-> "into_map_of", self |-> Top, T |-> T,
                         scopes |-> IF given THEN Top.scopes ELSE <<>>,
                         order |-> order])

\* A tree has been built and a root walker created over it.
WalkInit ==
    /\ doc \in Trees(MaxDepth)
    /\ rootScopes \in RootScopes
    /\ wstack = <<with_scopes(<<>>, rootScopes)>>
    /\ call = NoCall
    /\ res = NoCall
    /\ stack = <<>>
    /\ status = "idle"
    /\ result = NoResult
    /\ cur = EndEvent
    /\ depth = 0
    /\ lastOp = "none"
    /\ stepIns = 0
    /\ stepOuts = 0
    /\ nread = 0
    /\ lastBuilt = NoContainer
    /\ lastDecimal = NoDecimal

NextWalk ==
    \/ AsK
    \/ GetK
    \/ AsType
    \/ GetType
    \/ Descend
    \/ Return
    \/ DropResult
    \/ CloneWithScope
    \/ CloneScopesWith
    \/ ErrorCall
    \/ AsListSized
    \/ IntoMapOf

SpecWalk == WalkInit /\ [][NextWalk]_vars

\* -------------------------------------------------------- walker: properties

\* The node the last call's receiver refers to.
Node == Deref(doc, call.self.data)

\* The field names traversed from the root to where the last call failed:
\* those leading to the receiver's node and, when the call looked a field
\* up in a Record, that field's name.
Traversed ==
    IF call.op \in {"get", "get_type", "descend"} /\ Node.ty = "Struct"
    THEN Append(call.self.data, call.field)
    ELSE call.self.data

\* C1: a narrowing that fails after a chain of get_type descents from the
\* root walker reports the root walker's scopes followed by the field names
\* traversed, in order.
C1_PathCorrectness ==
    (call.op \in {"as", "get", "as_type", "get_type", "descend"} /\ ~res.ok) =>
        res.err.scopes = rootScopes \o Traversed

C1_Witness ==
    /\ call.op = "get"
    /\ call.K = "Integer"
    /\ call.field = "b"
    /\ call.self.data = <<"a">>
    /\ rootScopes = <<>>
    /\ ~res.ok
    /\ res.err.ty.kind = "WrongType"
    /\ res.err.scopes = <<"a", "b">>

\* The fields of a Record in the order into_map_of visited them, up to and
\* including the first whose conversion to T fails.
Converts(T, value) ==
    \/ T \in {"i32", "i64"} /\ value.ty = "Integer"
    \/ T \in {"f32", "f64"} /\ value.ty = "Float"

FirstFailing(T, fields, order) ==
    CHOOSE i \in DOMAIN order :
        /\ ~Converts(T, fields[order[i]])
        /\ \A j \in 1..(i - 1) : Converts(T, fields[order[j]])

\* C2 as stated: into_map_of returns a map of exactly the Record's field
\* names, or fails on the first field whose conversion fails with the
\* supplied scopes followed by that field's name.
C2_IntoMapOfPath ==
    call.op = "into_map_of" =>
        LET fields == Node.v
        IN  IF \A n \in DOMAIN fields : Converts(call.T, fields[n])
            THEN res.ok /\ DOMAIN res.value = DOMAIN fields
            ELSE /\ ~res.ok
                 /\ res.err.scopes =
                      Append(call.scopes,
                             call.order[FirstFailing(call.T, fields, call.order)])

\* C3: get_K(f) fails with MissingField(f) under the walker's scopes and f
\* when the Record lacks f, with WrongType{found, K} under the same scopes
\* when f holds another kind, returns the payload when f holds a K, and
\* fails with WrongType{found, Struct} under the walker's own scopes when
\* the node is not a Record.
C3_GetK ==
    call.op = "get" =>
        LET P == call.self.scopes
            f == call.field
        IN  IF Node.ty # "Struct"
            THEN /\ ~res.ok
                 /\ res.err.ty.kind = "WrongType"
                 /\ res.err.ty = WrongType(Node.ty, "Struct")
                 /\ res.err.scopes = P
            ELSE IF f \notin DOMAIN Node.v
            THEN /\ ~res.ok
                 /\ res.err.ty.kind = "MissingField"
                 /\ res.err.ty = MissingField(f)
                 /\ res.err.scopes = Append(P, f)
            ELSE IF Node.v[f].ty # call.K
            THEN /\ ~res.ok
                 /\ res.err.ty.kind = "WrongType"
                 /\ res.err.ty = WrongType(Node.v[f].ty, call.K)
                 /\ res.err.scopes = Append(P, f)
            ELSE /\ res.ok
                 /\ res.value = (IF call.K = "Null" THEN "unit" ELSE Node.v[f].v)

C3_Witness ==
    /\ call.op = "get"
    /\ Node.ty = "Struct"
    /\ call.field \notin DOMAIN Node.v
    /\ call.self.scopes = <<"root", "a">>
    /\ ~res.ok
    /\ res.err.ty.kind = "MissingField"

\* C6: as_list_sized::<N> returns a result exactly when the value is a
\* Sequence of N items, and then all N of them in stored order.
C6_SizedSequence ==
    call.op = "as_list_sized" =>
        /\ res.some <=> (Node.ty = "List" /\ Len(Node.v) = call.n)
        /\ res.some =>
              /\ Len(res.value) = call.n
              /\ \A i \in 1..call.n : res.value[i] = Node.v[i]

C6_Witness ==
    /\ call.op = "as_list_sized"
    /\ call.n = 2
    /\ res.some
    /\ res.value[2].v = 2

\* The calls that return a value to the walker in use.
MethodCalls ==
    {"as", "get", "as_type", "get_type", "clone_with_scope",
     "clone_scopes_with", "error", "as_list_sized", "into_map_of"}

Min(a, b) == IF a < b THEN a ELSE b

\* C7: no call changes a walker in use: each keeps its node and scopes
\* while calls are made on it and on the walkers descended from it;
\* clone_with_scope returns a walker over the same node with the label
\* appended to the receiver's scopes; and every walker descended into a
\* child refers to that child and has its parent's scopes with the child's
\* name appended, whatever was descended into before.
C7_NoMutation ==
    /\ [](/\ wstack # <<>> => wstack[1] = with_scopes(<<>>, rootScopes)
          /\ \A i \in 2..Len(wstack) :
                LET name == wstack[i].data[Len(wstack[i].data)]
                IN  /\ wstack[i].data = Append(wstack[i - 1].data, name)
                    /\ wstack[i].scopes = Append(wstack[i - 1].scopes, name)
          /\ call.op \in MethodCalls => Top = call.self
          /\ call.op = "clone_with_scope" =>
                res = IonWalker(call.self.data, Append(call.self.scopes, call.label))
          /\ call.op = "clone_scopes_with" =>
                res = Append(call.self.scopes, call.label))
    /\ [][\A i \in 1..Min(Len(wstack), Len(wstack')) : wstack'[i] = wstack[i]]_vars

C7_Witness ==
    /\ call.op = "descend"
    /\ res.ok
    /\ call.after = <<"a">>
    /\ Len(wstack) = 2
    /\ wstack[2].data = <<"b">>
    /\ wstack[2].scopes = <<"root", "b">>

\* The Value accessor under the walker's as_K, for the kinds that have both.
Soft(K, value) ==
    CASE K = "Struct" -> IonValue_as_struct(value)
      [] K = "List" -> IonValue_as_list(value)
      [] K = "Boolean" -> IonValue_as_bool(value)
      [] K = "Integer" -> IonValue_as_int(value)
      [] K = "Float" -> IonValue_as_float(value)
      [] K = "String" -> IonValue_as_str(value)
      [] K = "Timestamp" -> IonValue_as_timestamp(value)

BothKinds ==
    {"Struct", "List", "Boolean", "Integer", "Float", "String", "Timestamp"}

\* The walker's as_K and the Value's accessor agree on the node.
Agree(K) ==
    /\ res.ok <=> Soft(K, Node).some
    /\ res.ok => res.value = Soft(K, Node).value

====
